---------------------------- MODULE Spec2Model ----------------------------
(***************************************************************************)
(* Resumable FoldX worker (src/parallel/worker_foldx.py).                  *)
(*                                                                         *)
(* The output file is modelled byte for byte as a string: rows are written *)
(* as comma separated text, a killed checkpoint leaves any prefix of the   *)
(* bytes it was writing, and the ledger is rebuilt at startup by parsing   *)
(* the text back (pandas.read_csv followed by the key loop).               *)
(***************************************************************************)
EXTENDS Integers, Sequences, FiniteSets, TLC

(***************************************************************************)
(* Bounds of the model.                                                    *)
(***************************************************************************)
\* Worker processes started in one behaviour.
MaxRuns == 3
\* Kills (process death at an arbitrary point) in one behaviour.
MaxKills == 1
\* External commands (conversion, RepairPDB, BuildModel) that fail in one behaviour.
MaxFailures == 2
\* BuildModel runs that leave no energy value in one behaviour.
MaxNulls == 1

(***************************************************************************)
(* Text helpers.                                                           *)
(***************************************************************************)
Digits == "0123456789"

\* 1-based position of the first occurrence of the one-character string c
\* in s, 0 when absent (str.find, counted from 1).
IndexIn(c, s) ==
    LET at == {i \in 1..Len(s) : SubSeq(s, i, i) = c}
    IN  IF at = {} THEN 0 ELSE CHOOSE i \in at : \A j \in at : i <= j

IsDigit(c) == IndexIn(c, Digits) # 0

DigitVal(c) == IndexIn(c, Digits) - 1

AllDigits(s) == s # "" /\ \A i \in 1..Len(s) : IsDigit(SubSeq(s, i, i))

\* The text after an optional leading minus sign.
Unsigned(s) == IF s # "" /\ Head(s) = "-" THEN Tail(s) ELSE s

\* Python int(str) accepts an optionally signed run of digits.
IsIntLit(s) == AllDigits(Unsigned(s))

\* digits "." digits, optionally signed: what read_csv types as a float.
IsFloatLit(s) ==
    LET u == Unsigned(s)
        d == IndexIn(".", u)
    IN  /\ d > 1
        /\ d < Len(u)
        /\ AllDigits(SubSeq(u, 1, d - 1))
        /\ AllDigits(SubSeq(u, d + 1, Len(u)))

RECURSIVE NatOf(_)
\* Value of a run of digits.
NatOf(s) ==
    IF s = "" THEN 0
    ELSE 10 * NatOf(SubSeq(s, 1, Len(s) - 1)) + DigitVal(SubSeq(s, Len(s), Len(s)))

\* Integer part of an int or float literal (int() truncates toward zero).
IntPart(s) ==
    LET u == Unsigned(s)
        d == IndexIn(".", u)
        n == NatOf(IF d = 0 THEN u ELSE SubSeq(u, 1, d - 1))
    IN  IF s # "" /\ Head(s) = "-" THEN 0 - n ELSE n

RECURSIVE SplitAt(_, _, _)
\* The pieces of s from position from on, cut at the positions in cuts.
SplitAt(s, cuts, from) ==
    IF cuts = {} THEN <<SubSeq(s, from, Len(s))>>
    ELSE LET c == CHOOSE i \in cuts : \A j \in cuts : i <= j
         IN  <<SubSeq(s, from, c - 1)>> \o SplitAt(s, cuts \ {c}, c + 1)

\* str.split(sep) for a one-character separator: always at least one piece.
Split(s, sep) == SplitAt(s, {i \in 1..Len(s) : SubSeq(s, i, i) = sep}, 1)

RECURSIVE Join(_, _)
Join(cells, sep) ==
    IF cells = <<>> THEN ""
    ELSE IF Len(cells) = 1 THEN cells[1]
    ELSE cells[1] \o sep \o Join(Tail(cells), sep)

IsPrefix(a, b) == Len(a) <= Len(b) /\ SubSeq(b, 1, Len(a)) = a

EndsWithNewline(s) == s # "" /\ SubSeq(s, Len(s), Len(s)) = "\n"


(***************************************************************************)
(* The tabular file format (pandas to_csv / read_csv, C engine defaults).  *)
(***************************************************************************)
\* Columns of the chunk file, in the order the upstream stages write them.
InputColumns == <<"UniProtID", "WildType", "ResidueIndex", "MutantAA", "StructureFile">>

\* row.to_dict() plus the two keys the worker adds, in insertion order.
OutputColumns == InputColumns \o <<"ddG", "MutantStructureFile">>

\* One line of text: the cells joined by commas and a line terminator.
CsvLine(cells) == Join(cells, ",") \o "\n"

\* read_csv skips blank lines; the text after the last terminator is a line
\* of its own when it is not empty.
CsvLines(s) == SelectSeq(Split(s, "\n"), LAMBDA l : l # "")

PadTo(cells, w) == cells \o [i \in 1..(w - Len(cells)) |-> ""]

Max(a, b) == IF a >= b THEN a ELSE b

\* read_csv: the first line names the columns.  The first data line may be
\* longer than the header (its leading cells then become index columns);
\* any later line longer than the table is a ParserError; shorter lines are
\* padded with missing values.  A file with no line is an EmptyDataError.
ReadCsv(s) ==
    LET lines == CsvLines(s)
    IN  IF lines = <<>> THEN [ok |-> FALSE, names |-> <<>>, lead |-> 0, rows |-> <<>>]
        ELSE
        LET names == Split(lines[1], ",")
            data  == [i \in 1..(Len(lines) - 1) |-> Split(lines[i + 1], ",")]
            width == IF data = <<>> THEN Len(names)
                     ELSE Max(Len(names), Len(data[1]))
        IN  IF \E i \in 1..Len(data) : Len(data[i]) > width
            THEN [ok |-> FALSE, names |-> names, lead |-> 0, rows |-> <<>>]
            ELSE [ok    |-> TRUE,
                  names |-> names,
                  lead  |-> width - Len(names),
                  rows  |-> [i \in 1..Len(data) |-> PadTo(data[i], width)]]

\* Position of a column name in the header, 0 when there is no such column.
ColumnIndex(names, name) ==
    IF \E i \in 1..Len(names) : names[i] = name
    THEN CHOOSE i \in 1..Len(names) :
            names[i] = name /\ \A j \in 1..(i - 1) : names[j] # name
    ELSE 0

\* The cells of one field position over all rows: what decides its dtype.
ColumnCells(rows, j) == {rows[i][j] : i \in 1..Len(rows)}

IsNumericColumn(cells) == \A c \in cells : c = "" \/ IsIntLit(c) \/ IsFloatLit(c)

IsIntColumn(cells) == \A c \in cells : IsIntLit(c)

\* int(r[col]): a missing value (NaN) and a non-integer string raise
\* ValueError; a float of a numeric column is truncated.
CanInt(cell, cells) ==
    /\ cell # ""
    /\ IF IsNumericColumn(cells) THEN TRUE ELSE IsIntLit(cell)

\* f"{r[col]}": a missing value prints as nan, an integer of a float column
\* with a trailing .0, everything else as it was read.
StrOf(cell, cells) ==
    IF cell = "" THEN "nan"
    ELSE IF IsIntColumn(cells) THEN ToString(IntPart(cell))
    ELSE IF IsNumericColumn(cells) /\ IsIntLit(cell) THEN ToString(IntPart(cell)) \o ".0"
    ELSE cell

(***************************************************************************)
(* The identity key.                                                       *)
(***************************************************************************)
KeyFormatNoWildType(id, wt, n, mut) == id \o "_" \o ToString(n) \o mut

\* f"{UniProtID}_{WildType}{int(ResidueIndex)}{MutantAA}"
KeyFormat(id, wt, n, mut) == id \o "_" \o wt \o ToString(n) \o mut

\* Lines 107-109: the key of one row of the existing output.  The row is a
\* padded line of read_csv; a missing key column is a KeyError.
LedgerRowOk(t, i) ==
    LET ix(name) == ColumnIndex(t.names, name)
    IN  /\ \A name \in {"UniProtID", "WildType", "ResidueIndex", "MutantAA"} : ix(name) # 0
        /\ CanInt(t.rows[i][t.lead + ix("ResidueIndex")],
                  ColumnCells(t.rows, t.lead + ix("ResidueIndex")))

LedgerRowKey(t, i) ==
    LET ix(name)   == ColumnIndex(t.names, name)
        cell(name) == t.rows[i][t.lead + ix(name)]
        str(name)  == StrOf(cell(name), ColumnCells(t.rows, t.lead + ix(name)))
    IN  KeyFormat(str("UniProtID"), str("WildType"),
                  IntPart(cell("ResidueIndex")), str("MutantAA"))

\* Number of rows the loop of lines 107-109 gets through before an exception
\* leaves the try block (all of them when none raises).
LedgerRowsRead(t) ==
    IF \E i \in 1..Len(t.rows) : ~LedgerRowOk(t, i)
    THEN (CHOOSE i \in 1..Len(t.rows) :
             ~LedgerRowOk(t, i) /\ \A j \in 1..(i - 1) : LedgerRowOk(t, j)) - 1
    ELSE Len(t.rows)

\* Lines 105-113: what the try block leaves behind for the text s of an
\* existing output file: the keys added before any exception, and whether
\* the except branch ("Starting fresh") was taken.
ScanResult(s) ==
    LET t == ReadCsv(s)
    IN  IF ~t.ok THEN [keys |-> {}, raised |-> TRUE]
        ELSE [keys   |-> {LedgerRowKey(t, i) : i \in 1..LedgerRowsRead(t)},
              raised |-> LedgerRowsRead(t) < Len(t.rows)]

(***************************************************************************)
(* The chunk.                                                              *)
(***************************************************************************)
\* Bio.SeqUtils.seq1 on the residue codes of the chunks below.
get_1letter_code(aa3) ==
    CASE aa3 = "Glu" -> "E"
      [] aa3 = "Asp" -> "D"
      [] aa3 = "Lys" -> "K"
      [] aa3 = "Arg" -> "R"
      [] aa3 = "Ala" -> "A"
      [] aa3 = "Val" -> "V"
      [] OTHER       -> "X"

Row(id, wt, pos, mut, sf) ==
    [UniProtID |-> id, WildType |-> wt, ResidueIndex |-> pos, MutantAA |-> mut,
     StructureFile |-> sf]

\* The chunks a worker is run on: P1 with two mutations and P2 with one (the
\* scenario of the specification), and a chunk whose rows are not in the
\* order of their protein identifiers.
Chunks ==
    { << Row("P1", "Glu", "10", "Asp", "s1"),
         Row("P1", "Lys", "55", "Arg", "s1"),
         Row("P2", "Ala", "3", "Val", "s2") >>,
      << Row("P2", "Ala", "3", "Val", "s2"),
         Row("P1", "Glu", "10", "Asp", "s1") >> }

\* The values --batch_size takes here; 0 switches the limit off (line 291).
BatchLimits == {0, 1}

\* What the engine may report as the energy: no value, or a number.
DdgValues == {"", "1.5"}

\* Lexicographic order of two strings by code point, for the sorted group
\* keys of groupby.
Alphabet == "0123456789ABCDEFGHIJKLMNOPQRSTUVWXYZ_abcdefghijklmnopqrstuvwxyz"

RECURSIVE StrLess(_, _)
StrLess(a, b) ==
    IF b = "" THEN FALSE
    ELSE IF a = "" THEN TRUE
    ELSE IF Head(a) = Head(b) THEN StrLess(Tail(a), Tail(b))
    ELSE IndexIn(Head(a), Alphabet) < IndexIn(Head(b), Alphabet)

(***************************************************************************)
(* State.                                                                  *)
(***************************************************************************)
VARIABLES
    df,                         \* the chunk passed to run_foldx_process
    BATCH_LIMIT,                \* --batch_size
    output_exists,              \* os.path.exists(OUTPUT_CSV)
    output_csv,                 \* the bytes of OUTPUT_CSV
    work_dir,                   \* proteins whose <id>_Repair.pdb is in WORK_DIR
    pc,                         \* where the worker process is
    gi,                         \* position of the for loop of line 125
    ri,                         \* position of the for loop of line 177
    completed_keys,
    write_header,
    variants_processed_session,
    results_batch,
    runs,                       \* worker processes started so far
    kills,                      \* worker processes killed so far
    start_len,                  \* length of the output when this process started
    start_keys,                 \* completed_keys when the group loop was entered
    scan_raised,                \* this process took the except branch of line 112
    repair_called,              \* proteins RepairPDB was run for by this process
    skipped,                    \* proteins this process skipped at line 149 or 168
    invoked,                    \* rows BuildModel was run for by this process
    recorded,                   \* rows this process appended a result entry for
    failures,                   \* external commands that failed so far
    nulls,                      \* results without an energy value so far
    input_csv,                  \* the bytes of INPUT_CSV the partitioner reads
    NUM_CHUNKS,                 \* the number of chunks asked for
    split_pc,                   \* where the partitioner process is
    split_df,                   \* the partitioner's table: column names and rows
    chunks,                     \* what array_split returned
    chunk_files,                \* the chunk files written, by worker_id
    cursor,                     \* rows of its chunk each pool worker has handled
    mutated                     \* the paths the pool workers wrote, moved or removed

vars == <<df, BATCH_LIMIT, output_exists, output_csv, work_dir, pc, gi, ri,
          completed_keys, write_header, variants_processed_session,
          results_batch, runs, kills, start_len, start_keys, scan_raised,
          repair_called, skipped, invoked, recorded, failures, nulls,
          input_csv, NUM_CHUNKS, split_pc, split_df, chunks, chunk_files,
          cursor, mutated>>

\* The process-local values a new process starts with (lines 87, 88, 119).
memory == <<completed_keys, write_header, variants_processed_session, results_batch>>

\* What the model records about the current process.
history == <<start_len, start_keys, scan_raised, repair_called, skipped, invoked, recorded>>

files == <<output_exists, output_csv, work_dir>>

\* The workers run side by side on the chunks of the partitioner.
pool == <<cursor, mutated>>

\* The state of the partitioner and of the pool, which no step of the single
\* worker touches.
partition == <<input_csv, NUM_CHUNKS, split_pc, split_df, chunks, chunk_files, pool>>

inputs == <<df, BATCH_LIMIT, partition>>

budget == <<failures, nulls>>

(***************************************************************************)
(* Grouping (line 116) and keys (lines 127, 180).                          *)
(***************************************************************************)
ProteinIds(d) == {d[i].UniProtID : i \in 1..Len(d)}

\* groupby('UniProtID') iterates the groups in sorted key order.
grouped(d) ==
    CHOOSE g \in [1..Cardinality(ProteinIds(d)) -> ProteinIds(d)] :
        \A i, j \in DOMAIN g : i < j => StrLess(g[i], g[j])

\* The rows of one group, as positions in the chunk, in chunk order.
group(d, id) == SelectSeq([i \in 1..Len(d) |-> i], LAMBDA i : d[i].UniProtID = id)

\* Lines 127 and 179-180: the key of an input row.
unique_key(row) ==
    KeyFormat(row.UniProtID, row.WildType, IntPart(row.ResidueIndex), row.MutantAA)

group_keys(d, id) == {unique_key(d[i]) : i \in {j \in 1..Len(d) : d[j].UniProtID = id}}

\* Line 128.
GroupDone(d, id, done) == \A k \in group_keys(d, id) : k \in done

result_entryZeroEnergy(row, ddg) ==
    << row.UniProtID, row.WildType, row.ResidueIndex, row.MutantAA, row.StructureFile,
       IF ddg = "" THEN "0.0" ELSE ddg,
       row.UniProtID \o "_" \o get_1letter_code(row.WildType)
           \o ToString(IntPart(row.ResidueIndex))
           \o get_1letter_code(row.MutantAA) \o ".pdb" >>

\* Lines 185-190, 233, 244-246: the result entry of a row, as output cells.
result_entry(row, ddg) ==
    << row.UniProtID, row.WildType, row.ResidueIndex, row.MutantAA, row.StructureFile,
       ddg,
       row.UniProtID \o "_" \o get_1letter_code(row.WildType)
           \o ToString(IntPart(row.ResidueIndex))
           \o get_1letter_code(row.MutantAA) \o ".pdb" >>

RECURSIVE CsvText(_)
CsvText(entries) ==
    IF entries = <<>> THEN "" ELSE CsvLine(Head(entries)) \o CsvText(Tail(entries))

BatchBytesFirstOnly(batch, header) ==
    (IF header THEN CsvLine(OutputColumns) ELSE "") \o CsvLine(Head(batch))

\* Line 285: the bytes to_csv(mode='a', header=write_header) appends.
BatchBytes(batch, header) ==
    (IF header THEN CsvLine(OutputColumns) ELSE "") \o CsvText(batch)

(***************************************************************************)
(* Initial state: a chunk and a limit are chosen; nothing has run yet, the *)
(* output file does not exist and the workspace is empty.                  *)
(***************************************************************************)
NothingRun ==
    /\ output_exists = FALSE
    /\ output_csv = ""
    /\ work_dir = {}
    /\ pc = "idle"
    /\ gi = 0
    /\ ri = 0
    /\ completed_keys = {}
    /\ write_header = TRUE
    /\ variants_processed_session = 0
    /\ results_batch = <<>>
    /\ runs = 0
    /\ kills = 0
    /\ start_len = 0
    /\ start_keys = {}
    /\ scan_raised = FALSE
    /\ repair_called = {}
    /\ skipped = {}
    /\ invoked = {}
    /\ recorded = {}
    /\ failures = 0
    /\ nulls = 0

\* The partitioner is not part of the run: no input file, nothing written.
NothingSplit ==
    /\ input_csv = ""
    /\ NUM_CHUNKS = 1
    /\ split_pc = "off"
    /\ split_df = [names |-> <<>>, rows |-> <<>>]
    /\ chunks = <<>>
    /\ chunk_files = <<>>
    /\ cursor = [w \in 1..NUM_CHUNKS |-> 0]
    /\ mutated = {}

Init ==
    /\ df \in Chunks
    /\ BATCH_LIMIT \in BatchLimits
    /\ NothingRun
    /\ NothingSplit

\* The protein of the current group and the chunk row under the inner loop.
uniprot_id == grouped(df)[gi]

InGroups == gi >= 1 /\ gi <= Len(grouped(df))

CurrentRows == group(df, uniprot_id)

InRows == ri >= 1 /\ ri <= Len(CurrentRows)

idx == CurrentRows[ri]

\* The for loop of line 125 moves on: to the next group, or out of the loop,
\* where run_foldx_process returns.
NextGroup ==
    /\ gi' = gi + 1
    /\ pc' = IF gi + 1 <= Len(grouped(df)) THEN "group" ELSE "done"

\* A fresh process: lines 87-88 and 119, and the model's record of it.
FreshMemory ==
    /\ completed_keys' = {}
    /\ write_header' = TRUE
    /\ variants_processed_session' = 0
    /\ results_batch' = <<>>

FreshHistory ==
    /\ start_len' = Len(output_csv)
    /\ start_keys' = {}
    /\ scan_raised' = FALSE
    /\ repair_called' = {}
    /\ skipped' = {}
    /\ invoked' = {}
    /\ recorded' = {}

\* The worker is started (again): lines 85-89.
StartRun ==
    /\ pc \in {"idle", "done"}
    /\ runs < MaxRuns
    /\ runs' = runs + 1
    /\ FreshMemory
    /\ FreshHistory
    /\ pc' = IF output_exists THEN "fix" ELSE "group"
    /\ gi' = 1
    /\ ri' = 0
    /\ UNCHANGED <<inputs, budget, files, kills>>

FixedNewlineAlways(s) == s \o "\n"

\* Lines 95-103: a terminator is appended when the last byte is not one.
FixedNewline(s) == IF s # "" /\ ~EndsWithNewline(s) THEN s \o "\n" ELSE s

FixNewline ==
    /\ pc = "fix"
    /\ output_csv' = FixedNewline(output_csv)
    /\ pc' = "scan"
    /\ UNCHANGED <<inputs, budget, output_exists, work_dir, gi, ri, memory, runs, kills, history>>

\* Lines 105-113: the ledger is read; an exception leaves the keys added so
\* far, keeps write_header set, and the worker goes on.
ScanLedger ==
    /\ pc = "scan"
    /\ LET r == ScanResult(output_csv)
       IN  /\ completed_keys' = r.keys
           /\ write_header' = r.raised
           /\ start_keys' = r.keys
           /\ scan_raised' = r.raised
    /\ pc' = "group"
    /\ UNCHANGED <<inputs, budget, files, gi, ri, variants_processed_session, results_batch,
                   runs, kills, start_len, repair_called, skipped, invoked, recorded>>

\* Lines 127-130: a group whose keys are all completed is passed over.
GroupSkip ==
    /\ pc = "group"
    /\ InGroups
    /\ GroupDone(df, uniprot_id, completed_keys)
    /\ NextGroup
    /\ UNCHANGED <<inputs, budget, files, ri, memory, runs, kills, history>>

ArtifactNeverFound(dir, id) == FALSE

\* Line 144: os.path.exists on the repaired structure.
ArtifactExists(dir, id) == id \in dir

\* Lines 132-144 and 170-176: the repair check.
GroupBegin ==
    /\ pc = "group"
    /\ InGroups
    /\ ~GroupDone(df, uniprot_id, completed_keys)
    /\ IF ArtifactExists(work_dir, uniprot_id)
       THEN pc' = "mutate" /\ ri' = 1 /\ results_batch' = <<>>
       ELSE pc' = "convert" /\ UNCHANGED <<ri, results_batch>>
    /\ UNCHANGED <<inputs, budget, files, gi, completed_keys, write_header,
                   variants_processed_session, runs, kills, history>>

\* Line 147: the structure is converted.
ConvertOk ==
    /\ pc = "convert"
    /\ pc' = "repair"
    /\ UNCHANGED <<inputs, budget, files, gi, ri, memory, runs, kills, history>>

\* Lines 147-149: the conversion fails and the protein is skipped.
ConvertFail ==
    /\ failures < MaxFailures
    /\ failures' = failures + 1
    /\ pc = "convert"
    /\ skipped' = skipped \cup {uniprot_id}
    /\ NextGroup
    /\ UNCHANGED <<inputs, nulls, files, ri, memory, runs, kills, start_len, start_keys,
                   scan_raised, repair_called, invoked, recorded>>

\* Lines 153-164 and 172-176: RepairPDB succeeds and leaves the artifact.
RepairOk ==
    /\ pc = "repair"
    /\ repair_called' = repair_called \cup {uniprot_id}
    /\ work_dir' = work_dir \cup {uniprot_id}
    /\ pc' = "mutate"
    /\ ri' = 1
    /\ results_batch' = <<>>
    /\ UNCHANGED <<inputs, budget, output_exists, output_csv, gi, completed_keys, write_header,
                   variants_processed_session, runs, kills, start_len, start_keys,
                   scan_raised, skipped, invoked, recorded>>

RepairFailFallsThrough ==
    /\ failures < MaxFailures
    /\ failures' = failures + 1
    /\ pc = "repair"
    /\ repair_called' = repair_called \cup {uniprot_id}
    /\ skipped' = skipped \cup {uniprot_id}
    /\ pc' = "mutate"
    /\ ri' = 1
    /\ results_batch' = <<>>
    /\ UNCHANGED <<inputs, nulls, files, gi, completed_keys, write_header,
                   variants_processed_session, runs, kills, start_len, start_keys,
                   scan_raised, invoked, recorded>>

\* Lines 164-168: RepairPDB exits non-zero and the protein is skipped.
RepairFail ==
    /\ failures < MaxFailures
    /\ failures' = failures + 1
    /\ pc = "repair"
    /\ repair_called' = repair_called \cup {uniprot_id}
    /\ skipped' = skipped \cup {uniprot_id}
    /\ NextGroup
    /\ UNCHANGED <<inputs, nulls, files, ri, memory, runs, kills, start_len, start_keys,
                   scan_raised, invoked, recorded>>

NeverCompleted(key, done) == FALSE

\* Line 180: membership in the completed-key set.
IsCompleted(key, done) == key \in done

\* Lines 177-183: a row whose key is completed is passed over.
MutateSkip ==
    /\ pc = "mutate"
    /\ InRows
    /\ IsCompleted(unique_key(df[idx]), completed_keys)
    /\ ri' = ri + 1
    /\ UNCHANGED <<inputs, budget, files, pc, gi, memory, runs, kills, history>>

MutateOkStopsAtLimit ==
    /\ pc = "mutate"
    /\ InRows
    /\ ~IsCompleted(unique_key(df[idx]), completed_keys)
    /\ \E ddg_val \in DdgValues :
          /\ results_batch' = Append(results_batch, result_entry(df[idx], ddg_val))
          /\ IF ddg_val = ""
             THEN nulls < MaxNulls /\ nulls' = nulls + 1
             ELSE nulls' = nulls
    /\ completed_keys' = completed_keys \cup {unique_key(df[idx])}
    /\ variants_processed_session' = variants_processed_session + 1
    /\ invoked' = invoked \cup {idx}
    /\ recorded' = recorded \cup {idx}
    /\ ri' = ri + 1
    /\ pc' = IF BATCH_LIMIT # 0 /\ variants_processed_session + 1 >= BATCH_LIMIT
             THEN "done"
             ELSE pc
    /\ UNCHANGED <<inputs, failures, files, gi, write_header, runs, kills,
                   start_len, start_keys, scan_raised, repair_called, skipped>>

\* Lines 185-253: BuildModel succeeds; the entry is kept for the checkpoint.
MutateOk ==
    /\ pc = "mutate"
    /\ InRows
    /\ ~IsCompleted(unique_key(df[idx]), completed_keys)
    /\ \E ddg_val \in DdgValues :
          /\ results_batch' = Append(results_batch, result_entry(df[idx], ddg_val))
          /\ IF ddg_val = ""
             THEN nulls < MaxNulls /\ nulls' = nulls + 1
             ELSE nulls' = nulls
    /\ completed_keys' = completed_keys \cup {unique_key(df[idx])}
    /\ variants_processed_session' = variants_processed_session + 1
    /\ invoked' = invoked \cup {idx}
    /\ recorded' = recorded \cup {idx}
    /\ ri' = ri + 1
    /\ UNCHANGED <<inputs, failures, files, pc, gi, write_header, runs, kills,
                   start_len, start_keys, scan_raised, repair_called, skipped>>

MutateFailAborts ==
    /\ failures < MaxFailures
    /\ failures' = failures + 1
    /\ pc = "mutate"
    /\ InRows
    /\ ~IsCompleted(unique_key(df[idx]), completed_keys)
    /\ invoked' = invoked \cup {idx}
    /\ ri' = Len(CurrentRows) + 1
    /\ UNCHANGED <<inputs, nulls, files, pc, gi, memory, runs, kills, start_len, start_keys,
                   scan_raised, repair_called, skipped, recorded>>

MutateFailMarksDone ==
    /\ failures < MaxFailures
    /\ failures' = failures + 1
    /\ pc = "mutate"
    /\ InRows
    /\ ~IsCompleted(unique_key(df[idx]), completed_keys)
    /\ invoked' = invoked \cup {idx}
    /\ completed_keys' = completed_keys \cup {unique_key(df[idx])}
    /\ ri' = ri + 1
    /\ UNCHANGED <<inputs, nulls, files, pc, gi, write_header, variants_processed_session,
                   results_batch, runs, kills, start_len, start_keys, scan_raised,
                   repair_called, skipped, recorded>>

\* Lines 206-207 and 279-280: BuildModel exits non-zero; the row is skipped.
MutateFail ==
    /\ failures < MaxFailures
    /\ failures' = failures + 1
    /\ pc = "mutate"
    /\ InRows
    /\ ~IsCompleted(unique_key(df[idx]), completed_keys)
    /\ invoked' = invoked \cup {idx}
    /\ ri' = ri + 1
    /\ UNCHANGED <<inputs, nulls, files, pc, gi, memory, runs, kills, start_len, start_keys,
                   scan_raised, repair_called, skipped, recorded>>

\* Line 291.
LimitReached == BATCH_LIMIT # 0 /\ variants_processed_session >= BATCH_LIMIT

Overwritten(file, bytes) == bytes

\* Line 285: to_csv with mode 'a'.
Appended(file, bytes) == file \o bytes

\* Lines 282-293: the group's entries are appended in one write; then the
\* session limit ends the run, or the loop moves on.
Checkpoint ==
    /\ pc = "mutate"
    /\ ~InRows
    /\ IF results_batch # <<>>
       THEN /\ output_csv' = Appended(output_csv, BatchBytes(results_batch, write_header))
            /\ output_exists' = TRUE
            /\ write_header' = FALSE
       ELSE UNCHANGED <<output_csv, output_exists, write_header>>
    /\ IF LimitReached
       THEN pc' = "done" /\ gi' = gi
       ELSE NextGroup
    /\ ri' = 0
    /\ UNCHANGED <<inputs, budget, work_dir, completed_keys, variants_processed_session,
                   results_batch, runs, kills, history>>

\* What is left of a killed process: nothing but the files.
Dead ==
    /\ pc' = "idle"
    /\ gi' = 0
    /\ ri' = 0
    /\ kills' = kills + 1
    /\ FreshMemory
    /\ FreshHistory
    /\ UNCHANGED <<inputs, budget, runs>>

\* The process is killed between two steps.
Kill ==
    /\ pc \notin {"idle", "done"}
    /\ kills < MaxKills
    /\ Dead
    /\ UNCHANGED files

\* The process is killed inside the write of line 285: the file was opened
\* for appending and holds any proper prefix of the bytes being written.
KillInWrite ==
    /\ pc = "mutate"
    /\ ~InRows
    /\ results_batch # <<>>
    /\ kills < MaxKills
    /\ LET bytes == BatchBytes(results_batch, write_header)
       IN  \E n \in 0..(Len(bytes) - 1) :
              output_csv' = Appended(output_csv, SubSeq(bytes, 1, n))
    /\ output_exists' = TRUE
    /\ Dead
    /\ UNCHANGED work_dir

Next ==
    \/ StartRun
    \/ FixNewline
    \/ ScanLedger
    \/ GroupSkip
    \/ GroupBegin
    \/ ConvertOk
    \/ ConvertFail
    \/ RepairOk
    \/ RepairFail
    \/ MutateSkip
    \/ MutateOk
    \/ MutateFail
    \/ Checkpoint
    \/ Kill
    \/ KillInWrite

Spec == Init /\ [][Next]_vars

(***************************************************************************)
(* The worker re-run without end.  A third specification starts the        *)
(* worker again whenever it has ended or been killed, as an operator or a  *)
(* scheduler re-running it until the chunk is complete would.  Runs are    *)
(* not counted; one external command fails and the worker is killed at     *)
(* most MaxKills times in all, so every command that keeps being retried   *)
(* succeeds in the end, and every energy is read; a worker whose output    *)
(* has outgrown MaxBytes is not started again, which keeps the outputs     *)
(* finite.  Fairness: the worker is started again whenever it can be, and  *)
(* a process that is not killed reaches the end of its run (its loops are  *)
(* over finite tables and every external command returns).                 *)
(***************************************************************************)
MaxBytes == 200

StartAgain ==
    /\ pc \in {"idle", "done"}
    /\ Len(output_csv) <= MaxBytes
    /\ FreshMemory
    /\ FreshHistory
    /\ pc' = IF output_exists THEN "fix" ELSE "group"
    /\ gi' = 1
    /\ ri' = 0
    /\ UNCHANGED <<inputs, budget, files, runs, kills>>

LiveNext ==
    \/ StartAgain
    \/ FixNewline
    \/ ScanLedger
    \/ GroupSkip
    \/ GroupBegin
    \/ ConvertOk
    \/ ConvertFail
    \/ RepairOk
    \/ RepairFail
    \/ MutateSkip
    \/ MutateOk
    \/ MutateFail
    \/ Checkpoint
    \/ Kill
    \/ KillInWrite

LiveInit ==
    /\ df \in Chunks
    /\ BATCH_LIMIT \in BatchLimits
    /\ output_exists = FALSE
    /\ output_csv = ""
    /\ work_dir = {}
    /\ pc = "idle"
    /\ gi = 0
    /\ ri = 0
    /\ completed_keys = {}
    /\ write_header = TRUE
    /\ variants_processed_session = 0
    /\ results_batch = <<>>
    /\ runs = 0
    /\ kills = 0
    /\ start_len = 0
    /\ start_keys = {}
    /\ scan_raised = FALSE
    /\ repair_called = {}
    /\ skipped = {}
    /\ invoked = {}
    /\ recorded = {}
    /\ failures = MaxFailures - 1
    /\ nulls = MaxNulls
    /\ NothingSplit

Progress ==
    /\ WF_vars(StartAgain)
    /\ []<>(pc \in {"idle", "done"})

LiveSpec == LiveInit /\ [][LiveNext]_vars /\ Progress

(***************************************************************************)
(* The partitioner (split_workload.py).  It reads the cohort table, sorts  *)
(* it by the number of rows of each protein, cuts the sorted table into    *)
(* NUM_CHUNKS consecutive parts and writes one file for each part.  A      *)
(* third specification runs it on every table of at most MaxTableRows rows *)
(* over three proteins, on a file of no bytes, and on the table            *)
(* build_cohort.py saves when its mapping failed (lines 127-130: no        *)
(* UniProtID column), for chunk counts below and above the number of rows. *)
(***************************************************************************)
MaxTableRows == 6

TableIds == {"P1", "P2", "P3"}

\* The residue positions of the rows of a table, by line, taken in turn:
\* the fourth row of a protein repeats its first.
Residues == <<"10", "55", "3">>

TableRow(id, i) == <<id, "Glu", Residues[((i - 1) % Len(Residues)) + 1], "Asp", "s">>

TableText(ids) ==
    CsvLine(InputColumns) \o CsvText([i \in 1..Len(ids) |-> TableRow(ids[i], i)])

Tables == UNION {[1..n -> TableIds] : n \in 0..MaxTableRows}

UnmappedTable == CsvLine(Tail(InputColumns)) \o CsvLine(Tail(TableRow("P1", 1)))

InputFiles == {TableText(t) : t \in Tables} \cup {"", UnmappedTable}

\* The values NUM_CHUNKS takes here; line 18 sets it to 6.
ChunkCounts == {1, 2, 3, 6}

\* Lines 25-27: the number of rows of the table that carry this identifier.
MutationCount(rows, u, id) == Cardinality({i \in 1..Len(rows) : rows[i][u] = id})

SortsBeforeAscending(rows, u, i, j) ==
    LET ci == MutationCount(rows, u, rows[i][u])
        cj == MutationCount(rows, u, rows[j][u])
    IN  \/ ci < cj
        \/ /\ ci = cj
           /\ \/ StrLess(rows[i][u], rows[j][u])
              \/ rows[i][u] = rows[j][u] /\ i < j

\* Line 30: row i comes before row j when its protein has more rows, or as
\* many and the smaller identifier; rows of one protein keep their order
\* (the sort on several columns is a stable one).
SortsBefore(rows, u, i, j) ==
    LET ci == MutationCount(rows, u, rows[i][u])
        cj == MutationCount(rows, u, rows[j][u])
    IN  \/ ci > cj
        \/ /\ ci = cj
           /\ \/ StrLess(rows[i][u], rows[j][u])
              \/ rows[i][u] = rows[j][u] /\ i < j

sort_values(rows, u) ==
    LET rank(i) == Cardinality({j \in 1..Len(rows) : SortsBefore(rows, u, j, i)}) + 1
    IN  [k \in 1..Len(rows) |-> rows[CHOOSE i \in 1..Len(rows) : rank(i) = k]]

array_splitNoRemainder(ary, n) ==
    LET each == Len(ary) \div n
    IN  [i \in 1..n |-> SubSeq(ary, (i - 1) * each + 1, i * each)]

\* Line 36, numpy.array_split: n consecutive parts, the first len % n of
\* them one row longer than the others; parts may be empty.
array_split(ary, n) ==
    LET each   == Len(ary) \div n
        extras == Len(ary) % n
        div_points(i) == i * each + (IF i < extras THEN i ELSE extras)
    IN  [i \in 1..n |-> SubSeq(ary, div_points(i - 1) + 1, div_points(i))]

\* Line 43, to_csv(index=False): the header line, then one line for each
\* row; a missing value is written as an empty cell and a number as its
\* column's dtype prints it.  A part without rows is a file with the header
\* line alone.
to_csv(names, rows, all) ==
    CsvLine(names) \o
    CsvText([i \in 1..Len(rows) |->
                [j \in 1..Len(names) |->
                    IF rows[i][j] = "" THEN ""
                    ELSE StrOf(rows[i][j], ColumnCells(all, j))]])

\* The worker's variables, which no partitioner step touches.
worker == <<df, BATCH_LIMIT, files, pc, gi, ri, memory, runs, kills, history, budget>>

\* Line 22: read_csv raises EmptyDataError on a file without a line.
ReadInput ==
    /\ split_pc = "start"
    /\ LET t == ReadCsv(input_csv)
       IN  IF t.ok
           THEN /\ split_df' = [names |-> t.names, rows |-> t.rows]
                /\ split_pc' = "loaded"
           ELSE /\ split_pc' = "failed"
                /\ UNCHANGED split_df
    /\ UNCHANGED <<worker, pool, input_csv, NUM_CHUNKS, chunks, chunk_files>>

\* Lines 25-31: df['UniProtID'] raises KeyError when there is no such
\* column; the helper column is added and dropped again.
SortRows ==
    /\ split_pc = "loaded"
    /\ LET u == ColumnIndex(split_df.names, "UniProtID")
       IN  IF u = 0
           THEN /\ split_pc' = "failed"
                /\ UNCHANGED split_df
           ELSE /\ split_df' = [split_df EXCEPT !.rows = sort_values(split_df.rows, u)]
                /\ split_pc' = "sorted"
    /\ UNCHANGED <<worker, pool, input_csv, NUM_CHUNKS, chunks, chunk_files>>

\* Line 36.
ArraySplit ==
    /\ split_pc = "sorted"
    /\ chunks' = array_split(split_df.rows, NUM_CHUNKS)
    /\ split_pc' = "write"
    /\ UNCHANGED <<worker, pool, input_csv, NUM_CHUNKS, split_df, chunk_files>>

\* Lines 38-44: one turn of the loop writes the file of the next worker_id;
\* after the last one the process ends.
WriteChunk ==
    /\ split_pc = "write"
    /\ LET worker_id == Len(chunk_files) + 1
       IN  /\ chunk_files' =
                Append(chunk_files, to_csv(split_df.names, chunks[worker_id], split_df.rows))
           /\ split_pc' = IF worker_id = NUM_CHUNKS THEN "end" ELSE "write"
    /\ UNCHANGED <<worker, pool, input_csv, NUM_CHUNKS, split_df, chunks>>

SplitInit ==
    /\ df = <<>>
    /\ BATCH_LIMIT = 0
    /\ NothingRun
    /\ input_csv \in InputFiles
    /\ NUM_CHUNKS \in ChunkCounts
    /\ split_pc = "start"
    /\ split_df = [names |-> <<>>, rows |-> <<>>]
    /\ chunks = <<>>
    /\ chunk_files = <<>>
    /\ cursor = [w \in 1..NUM_CHUNKS |-> 0]
    /\ mutated = {}

SplitNext ==
    \/ ReadInput
    \/ SortRows
    \/ ArraySplit
    \/ WriteChunk

SplitSpec == SplitInit /\ [][SplitNext]_vars

(***************************************************************************)
(* The identity key over a wider set of rows.  A second specification runs *)
(* the worker, without failures or kills, on every chunk of two rows drawn *)
(* from identifiers, residue codes and positions that share prefixes, the  *)
(* position written as an integer or as a float, so that the key the       *)
(* ledger rebuilds from the output (line 108) meets the key the loop built *)
(* for the row (lines 127 and 179).                                        *)
(***************************************************************************)
KeyIds == {"P1", "P11"}
KeyWildTypes == {"Glu", "Lys"}
KeyPositions == {"1", "10", "10.0"}
KeyMutants == {"Asp", "Arg"}

KeyRows ==
    {Row(id, wt, pos, mut, "s")
        : id \in KeyIds, wt \in KeyWildTypes, pos \in KeyPositions, mut \in KeyMutants}

\* The identity of a row: the four columns the key is made of, the position
\* as the number it is.
Identity(row) ==
    <<row.UniProtID, row.WildType, IntPart(row.ResidueIndex), row.MutantAA>>

KeyChunks == {c \in KeyRows \X KeyRows : Identity(c[1]) # Identity(c[2])}

KeyInit ==
    /\ df \in KeyChunks
    /\ BATCH_LIMIT \in BatchLimits
    /\ NothingRun
    /\ NothingSplit

KeyNext ==
    \/ StartRun
    \/ FixNewline
    \/ ScanLedger
    \/ GroupSkip
    \/ GroupBegin
    \/ ConvertOk
    \/ RepairOk
    \/ MutateOk
    \/ Checkpoint

KeySpec == KeyInit /\ [][KeyNext]_vars

(***************************************************************************)
(* Reading the output file as a list of result rows.                       *)
(***************************************************************************)
\* The text of the complete result rows chunk row i can have in the file.
RowTexts(i) == {Join(result_entry(df[i], d), ",") : d \in DdgValues}

\* How many lines of the text s are a complete result row of chunk row i.
RowCount(s, i) ==
    LET lines == CsvLines(s)
    IN  Cardinality({j \in 1..Len(lines) : lines[j] \in RowTexts(i)})

\* The chunk rows with a given identity key.
RowsOfKey(k) == {i \in 1..Len(df) : unique_key(df[i]) = k}

\* The process is between two protein groups, or has returned.
AtGroupBoundary == pc \in {"group", "done"}

(***************************************************************************)
(* C1.  After any sequence of runs, kills (also inside a checkpoint write) *)
(* and restarts, the output file never holds two result rows with the same *)
(* identity key.                                                           *)
(***************************************************************************)
C1_NoDuplicateRows == \A i \in 1..Len(df) : RowCount(output_csv, i) <= 1

(***************************************************************************)
(* C3.  Every key in the completed-key set has exactly one result row in   *)
(* the output file.  Stated between groups, where the entries of the group *)
(* in progress have been written.                                          *)
(***************************************************************************)
C3_OneRowPerCompletedKey ==
    AtGroupBoundary =>
        \A k \in completed_keys :
            /\ RowsOfKey(k) # {}
            /\ \A i \in RowsOfKey(k) : RowCount(output_csv, i) = 1

(***************************************************************************)
(* C4.  A process whose ledger read raised stops: it runs no external      *)
(* command and appends nothing to the output (the terminator of the        *)
(* startup fix aside).                                                     *)
(***************************************************************************)
C4_FailsFastOnUnreadableOutput ==
    scan_raised =>
        /\ repair_called = {}
        /\ invoked = {}
        /\ Len(output_csv) <= start_len + 1

\* A step that runs BuildModel for a row without recording a result.
BuildModelFailed == invoked' # invoked /\ invoked' # {} /\ recorded' = recorded

\* The lines this process has appended to the output.
AppendedLines == CsvLines(SubSeq(output_csv, start_len + 1, Len(output_csv)))

(***************************************************************************)
(* C2.  BuildModel is never run for a row whose key is in the              *)
(* completed-key set, and a group whose keys are all completed is passed   *)
(* over with no repair check and no external command.                      *)
(***************************************************************************)
C2_NoEngineForCompletedKey ==
    [][ /\ \A i \in invoked' \ invoked : unique_key(df[i]) \notin completed_keys
        /\ (/\ pc = "group"
            /\ InGroups
            /\ GroupDone(df, uniprot_id, completed_keys)
            /\ pc' # "idle")
           => /\ pc' \in {"group", "done"}
              /\ gi' = gi + 1
              /\ repair_called' = repair_called
              /\ invoked' = invoked
              /\ work_dir' = work_dir ]_vars

\* A row whose key was recovered from the output at startup has been passed
\* over inside a group that still had work.
C2_Witness ==
    /\ pc = "mutate"
    /\ ri = 2
    /\ unique_key(df[CurrentRows[1]]) \in start_keys
    /\ CurrentRows[1] \notin invoked

(***************************************************************************)
(* C5.  The startup step appends exactly one terminator to a non-empty     *)
(* output that does not end with one and changes nothing else; it leaves   *)
(* any other output as it is; the ledger is read, and results are          *)
(* appended, only to an output that is empty or ends with a terminator.    *)
(***************************************************************************)
C5_StartupFix ==
    [][ /\ (pc = "fix" /\ pc' = "scan" /\ output_csv # "" /\ ~EndsWithNewline(output_csv))
           => /\ Len(output_csv') = Len(output_csv) + 1
              /\ IsPrefix(output_csv, output_csv')
              /\ EndsWithNewline(output_csv')
        /\ (pc = "fix" /\ pc' = "scan" /\ (output_csv = "" \/ EndsWithNewline(output_csv)))
           => output_csv' = output_csv
        /\ pc = "scan" => (output_csv = "" \/ EndsWithNewline(output_csv))
        /\ (pc # "fix" /\ output_csv' # output_csv)
           => (output_csv = "" \/ EndsWithNewline(output_csv)) ]_vars

\* The startup step has just repaired an output cut in the middle of a line.
C5_Witness ==
    /\ pc = "scan"
    /\ start_len > 0
    /\ Len(output_csv) = start_len + 1

(***************************************************************************)
(* C7.  The output only ever grows at its end, so a row written by a       *)
(* completed checkpoint stays in place through kills and restarts; and the *)
(* only results of a process that are not in the output are those of the   *)
(* group it is working on.                                                 *)
(***************************************************************************)
OnlyCurrentGroupUnwritten ==
    \A i \in recorded :
        \/ pc = "mutate" /\ df[i].UniProtID = uniprot_id
        \/ RowCount(output_csv, i) >= 1

C7_CheckpointedRowsSurvive ==
    /\ []OnlyCurrentGroupUnwritten
    /\ [][ /\ IsPrefix(output_csv, output_csv')
           /\ output_exists => output_exists' ]_vars

\* A process restarted after a kill finds a row of an earlier checkpoint.
C7_Witness ==
    /\ kills > 0
    /\ pc = "group"
    /\ start_len > 0
    /\ LET lines == CsvLines(output_csv)
           last == Split(lines[Len(lines)], ",")
       IN  /\ Len(lines) >= 3
           /\ last[1] \in ProteinIds(df)
           /\ Len(last) < Len(OutputColumns)
           /\ \E i \in 1..Len(df) :
                 RowCount(output_csv, i) = 1 /\ df[i].UniProtID # last[1]

(***************************************************************************)
(* C8.  RepairPDB is run for a protein only when its artifact is absent;   *)
(* artifacts are never removed; mutations are run only with the artifact   *)
(* present.                                                                *)
(***************************************************************************)
C8_RepairOnlyWhenAbsent ==
    [][ /\ \A p \in repair_called' \ repair_called : p \notin work_dir
        /\ work_dir \subseteq work_dir'
        /\ pc = "mutate" => uniprot_id \in work_dir ]_vars

\* A restarted process runs a mutation on an artifact it did not make.
C8_Witness ==
    /\ runs >= 2
    /\ pc = "mutate"
    /\ uniprot_id \in work_dir
    /\ uniprot_id \notin repair_called
    /\ invoked # {}

(***************************************************************************)
(* C9.  When the conversion or RepairPDB fails for a protein, the process  *)
(* runs BuildModel for none of its rows, appends no row of it, adds none   *)
(* of its keys, and goes on to the next group.                             *)
(***************************************************************************)
SkippedUntouched ==
    \A p \in skipped :
        /\ \A i \in invoked \cup recorded : df[i].UniProtID # p
        /\ completed_keys \cap group_keys(df, p) \subseteq start_keys
        /\ \A j \in 1..Len(AppendedLines) : Split(AppendedLines[j], ",")[1] # p

C9_FailedProteinSkipped ==
    /\ [][ (skipped' \ skipped # {})
           => /\ gi' = gi + 1
              /\ pc' \in {"group", "done"}
              /\ output_csv' = output_csv
              /\ completed_keys' = completed_keys
              /\ invoked' = invoked ]_vars
    /\ []SkippedUntouched

\* A process has skipped P1 and gone on to record a row of P2.
C9_Witness ==
    /\ pc = "done"
    /\ "P1" \in skipped
    /\ \E i \in recorded : df[i].UniProtID = "P2" /\ RowCount(output_csv, i) >= 1

(***************************************************************************)
(* C10.  A failing BuildModel leaves the loop on the next row of the same  *)
(* group with the batch as it was; and a run that ends without reaching    *)
(* the session limit has run BuildModel for every row that was pending and *)
(* whose protein was not skipped, and has written every success.           *)
(***************************************************************************)
AllAttempted ==
    (pc = "done" /\ ~LimitReached) =>
        /\ \A i \in 1..Len(df) :
              (unique_key(df[i]) \notin start_keys /\ df[i].UniProtID \notin skipped)
                  => i \in invoked
        /\ \A i \in recorded : RowCount(output_csv, i) >= 1

C10_FailureDoesNotAbort ==
    /\ []AllAttempted
    /\ [][ BuildModelFailed
           => /\ pc' = "mutate"
              /\ gi' = gi
              /\ ri' = ri + 1
              /\ results_batch' = results_batch ]_vars

\* A run in which BuildModel failed for the first row of a group has gone
\* on to record a later row of that group and a row of another protein.
C10_Witness ==
    /\ pc = "done"
    /\ \E i \in invoked \ recorded :
          /\ \E j \in recorded : j > i /\ df[j].UniProtID = df[i].UniProtID
          /\ \E j \in recorded : df[j].UniProtID # df[i].UniProtID

(***************************************************************************)
(* C6.  The keys the ledger rebuilds from the output are the keys the loop *)
(* built for the rows that were written, and two rows of different         *)
(* identity never have the same key.                                       *)
(***************************************************************************)
WrittenRows == {i \in 1..Len(df) : RowCount(output_csv, i) >= 1}

C6_KeyRoundTrip ==
    /\ output_csv # "" =>
          /\ ~ScanResult(output_csv).raised
          /\ ScanResult(output_csv).keys = {unique_key(df[i]) : i \in WrittenRows}
    /\ \A i, j \in 1..Len(df) :
          Identity(df[i]) # Identity(df[j]) => unique_key(df[i]) # unique_key(df[j])

\* The ledger has recovered the keys of two rows that differ only in a
\* position with a shared leading digit, one of them written as a float.
C6_Witness ==
    /\ pc = "group"
    /\ Cardinality(start_keys) = 2
    /\ df[1].UniProtID = df[2].UniProtID
    /\ df[1].WildType = df[2].WildType
    /\ df[1].MutantAA = df[2].MutantAA
    /\ {df[1].ResidueIndex, df[2].ResidueIndex} = {"1", "10.0"}

(***************************************************************************)
(* C11.  A BuildModel that exits non-zero records nothing: the batch, the  *)
(* completed-key set, the session count and the output are as they were;   *)
(* and the key of a row whose BuildModel failed in this process is neither *)
(* in the completed-key set nor among the keys a restart would read from   *)
(* the output, so the next run does not pass the row over.                 *)
(***************************************************************************)
FailedStaysPending ==
    \A i \in invoked \ recorded :
        /\ unique_key(df[i]) \notin completed_keys
        /\ unique_key(df[i]) \notin ScanResult(output_csv).keys

C11_FailedMutationStaysPending ==
    /\ []FailedStaysPending
    /\ [][ BuildModelFailed
           => /\ completed_keys' = completed_keys
              /\ results_batch' = results_batch
              /\ variants_processed_session' = variants_processed_session
              /\ output_csv' = output_csv ]_vars

\* The second run of a worker on the first chunk, with no kill and a single
\* failure so far: the first row of P1 is in the ledger, the second is not
\* (its BuildModel failed in the first run), and BuildModel has been run
\* for it again.
C11_Witness ==
    /\ runs = 2
    /\ kills = 0
    /\ failures = 1
    /\ BATCH_LIMIT = 0
    /\ ~scan_raised
    /\ pc = "mutate"
    /\ Len(df) = 3
    /\ unique_key(df[1]) \in start_keys
    /\ unique_key(df[2]) \notin start_keys
    /\ 2 \in invoked

\* A step in which BuildModel exits zero and leaves no energy to read: the
\* report is absent, or its value does not parse (lines 215-228).
EnergyMissing == nulls' > nulls

(***************************************************************************)
(* C12.  A BuildModel that exits zero without the expected report is       *)
(* treated as a failure: no entry is recorded and no key is added.         *)
(***************************************************************************)
C12_MissingOutputIsASkip ==
    [][ EnergyMissing
        => /\ recorded' = recorded
           /\ results_batch' = results_batch
           /\ completed_keys' = completed_keys ]_vars

(***************************************************************************)
(* C13.  A BuildModel that exits zero without a readable energy does not   *)
(* end the run: the entry of the row is recorded with an empty ddG, its    *)
(* key is added, and the loop is on the next row of the same group.        *)
(***************************************************************************)
C13_NullEnergyRecorded ==
    [][ EnergyMissing
        => LET entry == results_batch'[Len(results_batch')]
           IN  /\ Len(results_batch') = Len(results_batch) + 1
               /\ SubSeq(results_batch', 1, Len(results_batch)) = results_batch
               /\ entry[ColumnIndex(OutputColumns, "ddG")] = ""
               /\ entry[ColumnIndex(OutputColumns, "UniProtID")] = df[idx].UniProtID
               /\ entry[ColumnIndex(OutputColumns, "WildType")] = df[idx].WildType
               /\ entry[ColumnIndex(OutputColumns, "ResidueIndex")] = df[idx].ResidueIndex
               /\ entry[ColumnIndex(OutputColumns, "MutantAA")] = df[idx].MutantAA
               /\ completed_keys' = completed_keys \cup {unique_key(df[idx])}
               /\ pc' = "mutate"
               /\ gi' = gi
               /\ ri' = ri + 1 ]_vars

\* A run has ended with a row whose ddG is empty in the output and a later
\* row of the same run written after it.
C13_Witness ==
    /\ pc = "done"
    /\ \E i, j \in recorded :
          /\ i < j
          /\ LET lines == CsvLines(output_csv)
             IN  /\ \E n \in 1..Len(lines) : lines[n] = Join(result_entry(df[i], ""), ",")
                 /\ RowCount(output_csv, j) >= 1

(***************************************************************************)
(* C14.  The session limit stops the worker only between groups: once in a *)
(* group the loop stays in it until every row has been met, whatever the   *)
(* session count; the step that ends the run is the one that writes the    *)
(* group's batch; no group is begun with the limit reached; and a run that *)
(* has ended has every recorded entry in the output.                       *)
(***************************************************************************)
C14_StopsAtGroupBoundary ==
    /\ [](pc \in {"group", "convert", "repair"} => ~LimitReached)
    /\ [](pc = "done" => \A i \in recorded : RowCount(output_csv, i) >= 1)
    /\ [][ /\ (pc = "mutate" /\ InRows /\ pc' # "idle")
              => (pc' = "mutate" /\ gi' = gi)
           /\ (pc = "mutate" /\ pc' = "done")
              => /\ ~InRows
                 /\ results_batch # <<>>
                    => output_csv' = output_csv \o BatchBytes(results_batch, write_header)
           /\ (pc = "mutate" /\ ~InRows /\ LimitReached /\ pc' # "idle")
              => pc' = "done" ]_vars

\* A run with a limit of 1 has ended after the two mutations of P1, both
\* written, with P2 not begun.
C14_Witness ==
    /\ pc = "done"
    /\ BATCH_LIMIT = 1
    /\ Len(df) = 3
    /\ recorded = {1, 2}
    /\ RowCount(output_csv, 1) >= 1
    /\ RowCount(output_csv, 2) >= 1
    /\ 3 \notin invoked
    /\ unique_key(df[3]) \notin completed_keys

(***************************************************************************)
(* C15.  With a session limit, one process never completes more mutations  *)
(* than the limit.                                                         *)
(***************************************************************************)
C15_SessionCap ==
    BATCH_LIMIT # 0 =>
        /\ variants_processed_session <= BATCH_LIMIT
        /\ Cardinality(recorded) <= BATCH_LIMIT

\* The identity keys of the whole chunk.
ChunkKeys == {unique_key(df[i]) : i \in 1..Len(df)}

(***************************************************************************)
(* C16.  A run that was interrupted and resumed ends with the completed    *)
(* keys of an uninterrupted run with the same outcomes.  Stated for the    *)
(* outcomes in which every repair and every BuildModel succeeds and no     *)
(* session limit is set: an uninterrupted run then ends with exactly the   *)
(* keys of the chunk, and so must every run that ends, whatever kills and  *)
(* restarts came before it.                                                *)
(***************************************************************************)
C16_ResumeEquivalence ==
    (pc = "done" /\ BATCH_LIMIT = 0 /\ failures = 0) => completed_keys = ChunkKeys

\* The result rows this process has appended: its appended lines without
\* the header.
RunRows == SelectSeq(AppendedLines, LAMBDA l : l # Join(OutputColumns, ","))

\* The run of the scenario: on the chunk of P1 (Glu10Asp, Lys55Arg) and P2
\* (Ala3Val), a first run that repaired P1, recorded its first mutation,
\* failed its second and skipped P2.
ScenarioRun ==
    /\ pc = "done"
    /\ runs = 1
    /\ Len(df) = 3
    /\ invoked = {1, 2}
    /\ recorded = {1}
    /\ skipped = {"P2"}

(***************************************************************************)
(* C17.  When a run has ended, the result rows it appended are the rows it *)
(* recorded, one line each and nothing else; the recorded rows were        *)
(* pending at startup, belong to proteins with a repaired structure that   *)
(* were not skipped, and had BuildModel run; and the session count is the  *)
(* number of appended rows.  In the scenario run that is one row, that of  *)
(* P1 Glu10Asp, a session count of 1 and two keys not completed.           *)
(***************************************************************************)
C17_RunAppendsItsSuccesses ==
    pc = "done" =>
        /\ Len(RunRows) = Cardinality(recorded)
        /\ variants_processed_session = Len(RunRows)
        /\ \A i \in recorded :
              /\ Cardinality({n \in 1..Len(RunRows) : RunRows[n] \in RowTexts(i)}) = 1
              /\ i \in invoked
              /\ unique_key(df[i]) \notin start_keys
              /\ df[i].UniProtID \in work_dir
              /\ df[i].UniProtID \notin skipped
        /\ \A n \in 1..Len(RunRows) : \E i \in recorded : RunRows[n] \in RowTexts(i)
        /\ ScenarioRun =>
              /\ Len(CsvLines(output_csv)) = 2
              /\ RowCount(output_csv, 1) = 1
              /\ variants_processed_session = 1
              /\ Cardinality(ChunkKeys \ completed_keys) = 2

C17_Witness == ScenarioRun /\ BATCH_LIMIT = 0 /\ output_csv # ""

(***************************************************************************)
(* C18.  Re-run without end, with every retried command succeeding in the  *)
(* end, the worker keeps ending its runs, and from some run on every run   *)
(* ends with the completed-key set equal to the keys of the chunk (unless  *)
(* the output outgrows MaxBytes, where the re-runs of this model stop).    *)
(***************************************************************************)
C18_Converges ==
    \/ <>(Len(output_csv) > MaxBytes)
    \/ /\ []<>(pc = "done")
       /\ <>[](pc = "done" => completed_keys = ChunkKeys)


(***************************************************************************)
(* C19: when the partitioner has ended there is one chunk file for each of *)
(* the NUM_CHUNKS worker ids, every file starts with the header of the     *)
(* input, and every row of the input is in the chunk files as many times   *)
(* as it is in the input, whatever the chunk count and the number of rows; *)
(* the partitioner fails only on an input that is no table or that has no  *)
(* UniProtID column.                                                       *)
(***************************************************************************)
\* The rows of a table file as text, the header line left out.
DataLines(s) == IF CsvLines(s) = <<>> THEN <<>> ELSE Tail(CsvLines(s))

RECURSIVE ChunkRows(_)
ChunkRows(fs) == IF fs = <<>> THEN <<>> ELSE DataLines(Head(fs)) \o ChunkRows(Tail(fs))

Times(seq, x) == Cardinality({i \in 1..Len(seq) : seq[i] = x})

C19_EveryRowInOneChunk ==
    /\ split_pc = "end" =>
          /\ Len(chunk_files) = NUM_CHUNKS
          /\ \A i \in 1..Len(chunk_files) :
                CsvLines(chunk_files[i])[1] = CsvLines(input_csv)[1]
          /\ Len(ChunkRows(chunk_files)) = Len(DataLines(input_csv))
          /\ \A k \in 1..Len(DataLines(input_csv)) :
                Times(ChunkRows(chunk_files), DataLines(input_csv)[k])
                    = Times(DataLines(input_csv), DataLines(input_csv)[k])
    /\ split_pc = "failed" =>
          \/ ~ReadCsv(input_csv).ok
          \/ ColumnIndex(ReadCsv(input_csv).names, "UniProtID") = 0

\* Six chunks were written for a table of four rows of two proteins, one of
\* the rows twice in the table.
C19_Witness ==
    /\ split_pc = "end"
    /\ NUM_CHUNKS = 6
    /\ Len(DataLines(input_csv)) = 4
    /\ DataLines(input_csv)[1] = DataLines(input_csv)[4]
    /\ Cardinality({split_df.rows[i][1] : i \in 1..Len(split_df.rows)}) = 2
    /\ Len(chunk_files) = 6
    /\ DataLines(chunk_files[6]) = <<>>

(***************************************************************************)
(* C20: when the table has no row, or NUM_CHUNKS is greater than the       *)
(* number of rows (and so than the number of proteins), the partitioner    *)
(* writes no chunk file and does not end normally.                         *)
(***************************************************************************)
C20_FatalWithoutChunks ==
    (DataLines(input_csv) = <<>> \/ NUM_CHUNKS > Len(DataLines(input_csv)))
        => (chunk_files = <<>> /\ split_pc # "end")


(***************************************************************************)
(* C21: of two chunk files with rows, the one with the smaller worker id   *)
(* holds a protein with at least as many rows in the whole input table as  *)
(* any protein of the other.                                               *)
(***************************************************************************)
\* The protein identifiers of the rows of a table file, row by row.
FileIds(s) == [k \in 1..Len(DataLines(s)) |-> Split(DataLines(s)[k], ",")[1]]

\* The number of rows of the input table that carry this identifier.
InputCount(id) == Times(FileIds(input_csv), id)

\* The largest mutation count among the proteins of a chunk file with rows.
MaxMutationCount(s) ==
    CHOOSE c \in {InputCount(FileIds(s)[k]) : k \in 1..Len(FileIds(s))} :
        \A k \in 1..Len(FileIds(s)) : InputCount(FileIds(s)[k]) <= c

C21_CostliestProteinsFirst ==
    split_pc = "end" =>
        \A i, j \in 1..Len(chunk_files) :
            (i < j /\ DataLines(chunk_files[i]) # <<>> /\ DataLines(chunk_files[j]) # <<>>)
                => MaxMutationCount(chunk_files[i]) >= MaxMutationCount(chunk_files[j])

\* Three chunks with rows were written for a table given in the order of
\* rising counts: the first chunk has a protein of three rows, the last
\* only a protein of one row.
C21_Witness ==
    /\ split_pc = "end"
    /\ NUM_CHUNKS = 3
    /\ Len(DataLines(input_csv)) = 5
    /\ InputCount(FileIds(input_csv)[1]) = 1
    /\ InputCount(FileIds(input_csv)[5]) = 3
    /\ MaxMutationCount(chunk_files[1]) = 3
    /\ MaxMutationCount(chunk_files[2]) = 3
    /\ MaxMutationCount(chunk_files[3]) = 1


(***************************************************************************)
(* C25: of two chunk files with rows, the one with the smaller worker id   *)
(* has a largest protein group (the rows of one protein inside that file,  *)
(* what the worker's groupby of line 116 makes of it) at least as large as *)
(* the largest group of the other.                                         *)
(***************************************************************************)
\* The size of the largest group groupby makes of a chunk file with rows.
MaxGroupSize(s) ==
    CHOOSE c \in {Times(FileIds(s), FileIds(s)[k]) : k \in 1..Len(FileIds(s))} :
        \A k \in 1..Len(FileIds(s)) : Times(FileIds(s), FileIds(s)[k]) <= c

C25_LargestGroupsFirst ==
    split_pc = "end" =>
        \A i, j \in 1..Len(chunk_files) :
            (i < j /\ DataLines(chunk_files[i]) # <<>> /\ DataLines(chunk_files[j]) # <<>>)
                => MaxGroupSize(chunk_files[i]) >= MaxGroupSize(chunk_files[j])


(***************************************************************************)
(* The pool: one worker for each chunk file of the partitioner, started    *)
(* with --worker_id 6_<n> so that it reads cohort_part_6_<n>.csv (line     *)
(* 35), the workers taking their steps in any order.  A fourth             *)
(* specification runs the partitioner on the tables of at most             *)
(* MaxPoolRows rows and then the pool, and records every path a worker     *)
(* writes, moves or removes.                                               *)
(***************************************************************************)
MaxPoolRows == 4

Processed == "data/processed/"

WORKER_ID(w) == "6_" \o ToString(w)

\* Lines 35, 36 and 42.
INPUT_CSV(w) == Processed \o "cohort_part_" \o WORKER_ID(w) \o ".csv"

OUTPUT_CSV(w) == Processed \o "cohort_with_ddg_" \o WORKER_ID(w) \o ".csv"

WORK_DIR(w) == Processed \o "foldx_workspace_" \o WORKER_ID(w)

\* Lines 140, 141, 175, 214 and 232: the files of a row in the workspace.
WorkspaceFiles(w, id) ==
    { WORK_DIR(w) \o "/" \o id \o ".pdb",
      WORK_DIR(w) \o "/" \o id \o "_Repair.pdb",
      WORK_DIR(w) \o "/individual_list.txt",
      WORK_DIR(w) \o "/Dif_" \o id \o "_Repair.fxout",
      WORK_DIR(w) \o "/" \o id \o "_Repair_1.pdb" }

\* Lines 233-234: where the mutant structure of a row is moved to.
final_pdb_path(cells) ==
    Processed \o "structures/" \o cells[1] \o "_" \o get_1letter_code(cells[2])
        \o ToString(IntPart(cells[3])) \o get_1letter_code(cells[4]) \o ".pdb"

\* Lines 177-289 for the next row of the chunk of some worker w: the workspace files
\* are written; when the engine made the mutant structure it is moved to
\* the structures directory, and the row reaches the worker's output file.
PoolMutate ==
    /\ split_pc = "end"
    /\ \E w \in 1..NUM_CHUNKS :
          /\ cursor[w] < Len(DataLines(chunk_files[w]))
          /\ LET cells == Split(DataLines(chunk_files[w])[cursor[w] + 1], ",")
             IN  \E moved \in BOOLEAN :
                    mutated' = mutated
                        \cup {<<w, f>> : f \in WorkspaceFiles(w, cells[1])}
                        \cup {<<w, OUTPUT_CSV(w)>>}
                        \cup (IF moved THEN {<<w, final_pdb_path(cells)>>} ELSE {})
          /\ cursor' = [cursor EXCEPT ![w] = cursor[w] + 1]
    /\ UNCHANGED <<worker, input_csv, NUM_CHUNKS, split_pc, split_df, chunks, chunk_files>>

PoolInit ==
    /\ SplitInit
    /\ Len(DataLines(input_csv)) <= MaxPoolRows

PoolNext ==
    \/ SplitNext
    \/ PoolMutate

PoolSpec == PoolInit /\ [][PoolNext]_vars

(***************************************************************************)
(* C22: no path is written, moved or removed by two different workers of   *)
(* the pool, and no worker writes the chunk file another worker reads.     *)
(***************************************************************************)
C22_DisjointPaths ==
    /\ \A a, b \in mutated : a[2] = b[2] => a[1] = b[1]
    /\ \A a \in mutated : \A w \in 1..NUM_CHUNKS : a[2] # INPUT_CSV(w)


(***************************************************************************)
(* C23: a checkpoint writes the header row only in a process that found no *)
(* output file when it started, and at the end of every run an output file *)
(* with content has the header row as its first line and nowhere else.     *)
(***************************************************************************)
HeaderLine == Join(OutputColumns, ",")

HeaderRows(s) == Times(CsvLines(s), HeaderLine)

C23_OneHeaderFirst ==
    /\ (pc = "mutate" /\ write_header /\ results_batch # <<>>) => start_len = 0
    /\ (pc = "done" /\ output_csv # "") =>
          /\ CsvLines(output_csv)[1] = HeaderLine
          /\ HeaderRows(output_csv) = 1


(***************************************************************************)
(* C24: when a process has repaired and read an existing output file, the  *)
(* completed-key set it starts the group loop with is the set of keys of   *)
(* the chunk rows that have a complete result row in the file: a row cut   *)
(* short by a kill adds no key.                                            *)
(***************************************************************************)
C24_KeysOfCompleteRowsOnly ==
    (pc = "group" /\ gi = 1 /\ start_len > 0)
        => start_keys = {unique_key(df[i]) : i \in WrittenRows}

=============================================================================
